---- MODULE Spec2Model ----
(***************************************************************************)
(* The in-process learning-session state machine of the voice sales        *)
(* trainer backend: LearningIntelligenceService                            *)
(* (backend/services/claude_learning_service.py) together with the part of *)
(* ClaudeAPIClient (backend/integrations/claude.py) that turns the raw     *)
(* analyzer output into a ConversationAnalysis and that retries its        *)
(* outbound call, and the voice client ElevenLabsConversationalClient      *)
(* (backend/integrations/elevenlabs.py).                                   *)
(*                                                                         *)
(* Numbers.  Scores are Python floats on a 1.0-5.0 scale.  They are held   *)
(* here in tenths (30 is 3.0).  The scores the specifications feed in are  *)
(* multiples of 0.5, which binary floats hold exactly, so every sum, mean  *)
(* and comparison of the code is reproduced exactly by integer arithmetic  *)
(* on numerators and denominators.  The confidence is in tenths as well.   *)
(* Wall-clock time is the integer number of seconds int(timestamp()).      *)
(***************************************************************************)
EXTENDS Integers, Sequences, FiniteSets, TLC

VARIABLES
    now,               \* the clock reading, in whole seconds
    active_sessions,   \* self.active_sessions: session_id -> LearningSession
    session_history,   \* self.session_history: user_id -> list of LearningSession
    user_performance,  \* self.user_performance: user_id -> dimension -> deque(maxlen=50)
    result,            \* what the last call returned to its caller
    returned_ids,      \* history: the session ids start_learning_session returned, in order
    arrivals,          \* history: every score handed to user_performance, in order
    workload,          \* the inputs fixed when the run starts (see the Init predicates)
    analyzer_called,   \* history: whether the last call reached claude_client.analyze_conversation_turn
    in_flight,         \* the calls suspended at an await of the external service, in order of issue
    coaching_thresholds, \* self.coaching_thresholds: dimension -> threshold, in tenths
    client             \* the ElevenLabsConversationalClient of the voice layer

vars == << now, active_sessions, session_history, user_performance, result,
           returned_ids, arrivals, workload, analyzer_called, in_flight,
           coaching_thresholds, client >>

----------------------------------------------------------------------------
(* Bounds of the exploration *)

MaxClock == 1
MaxStarts == 2
MaxTurns == 2
MaxStepTurns == 11
WarmupTurns == 6
MaxCoachingTurns == 4
MaxBaselineStarts == 2
MaxBaselineTurns == 53
MaxAnalyzerTurns == 3
MaxLifecycleStarts == 2
MaxLifecycleTurns == 1
MaxAsyncTurns == 2
MaxAsyncEnds == 2
MaxRetriedTurns == 3
MaxSent == 3
MaxReceived == 2

----------------------------------------------------------------------------
(* Enumerations and program constants *)

CONTEXT_GATHERING == 1
SCENARIO_SELECTION == 2
SCENE_SETTING == 3
INTERACTIVE_ROLEPLAY == 4
STRUCTURED_FEEDBACK == 5
EXTENDED_LEARNING == 6

MollickFrameworkStep ==
    { CONTEXT_GATHERING, SCENARIO_SELECTION, SCENE_SETTING,
      INTERACTIVE_ROLEPLAY, STRUCTURED_FEEDBACK, EXTENDED_LEARNING }

\* The members of the enum in definition order (the order dict iteration follows).
DimOrder ==
    << "discovery_questions", "objection_handling", "value_articulation",
       "active_listening", "conversation_control", "empathy_building",
       "business_acumen", "closing_skills" >>

AssessmentDimension == { DimOrder[i] : i \in 1..Len(DimOrder) }

\* deque(maxlen=50)
BaselineMaxlen == 50

\* end_time=None
NoTime == -1

\* The neutral score 3.0, the confidences 0.5 / 0.7 / 0.8 of the fallbacks.
DefaultScore == 30
DefaultAnalysisConfidence == 5
DefaultDataConfidence == 7
TextAnalysisConfidence == 7
MissingConfidence == 8

DefaultThreshold == 25
OpportunityScore == 40
OpportunityMinTurns == 3
OpportunityPriority == 2
RecentTurnsWindow == 3
IncreaseAbove == 40
DecreaseBelow == 20
MaxDifficulty == 5
MinDifficulty == 1
SensitivityHighBelow == 25
SensitivityLowAbove == 35
SceneSettingTurns == 2
\* A bug that would enter role-play one turn early.
RoleplayTurns_OneEarly == 4 - 1

RoleplayTurns == 4
\* A bug that would open the gate one turn late (turn_count > 10).
FeedbackTurns_OneLate == 10 + 1

FeedbackTurns == 10
FeedbackWindow == 5
FeedbackMinSamples == 3
FeedbackMinAverage == 25
HistoryWindow == 5
DefaultDifficulty == 2

_initialize_coaching_thresholds ==
    ("discovery_questions" :> 25) @@ ("objection_handling" :> 20) @@
    ("value_articulation" :> 25) @@ ("active_listening" :> 20) @@
    ("conversation_control" :> 30) @@ ("empathy_building" :> 20) @@
    ("business_acumen" :> 30) @@ ("closing_skills" :> 35)

DefaultObjectives ==
    << "Practice discovery questions", "Handle objections effectively",
       "Build compelling value propositions" >>

----------------------------------------------------------------------------
(* Arithmetic helpers *)

\* s[-n:]
LastN(s, n) == IF Len(s) <= n THEN s ELSE SubSeq(s, Len(s) - n + 1, Len(s))

\* sum(s) of the first i entries of a list of numbers
RECURSIVE SumTo(_, _)
SumTo(s, i) == IF i = 0 THEN 0 ELSE s[i] + SumTo(s, i - 1)

SumSeq(s) == SumTo(s, Len(s))

\* int(x) of a float held in tenths: truncation toward zero.
IntPart(x) == IF x >= 0 THEN x \div 10 ELSE -((-x) \div 10)

\* dict.items() of a score mapping: the keys present, in enum order.
Keys(scores) ==
    IF DOMAIN scores = AssessmentDimension THEN DimOrder
    ELSE SelectSeq(DimOrder, LAMBDA d : d \in DOMAIN scores)

\* sum(scores.values()) over the first i dimensions, and len(scores)
RECURSIVE DimSum(_, _)
DimSum(scores, i) ==
    IF i = 0 THEN 0
    ELSE (IF DimOrder[i] \in DOMAIN scores THEN scores[DimOrder[i]] ELSE 0)
         + DimSum(scores, i - 1)

ScoreSum(scores) ==
    IF DOMAIN scores = AssessmentDimension
    THEN scores[DimOrder[1]] + scores[DimOrder[2]] + scores[DimOrder[3]]
         + scores[DimOrder[4]] + scores[DimOrder[5]] + scores[DimOrder[6]]
         + scores[DimOrder[7]] + scores[DimOrder[8]]
    ELSE DimSum(scores, Len(DimOrder))

ScoreCount(scores) == Cardinality(DOMAIN scores)

\* Sum and number of all the scores of the first i analyses of a list.
RECURSIVE TotalTo(_, _)
TotalTo(analyses, i) ==
    IF i = 0 THEN 0
    ELSE ScoreSum(analyses[i].assessment_scores) + TotalTo(analyses, i - 1)

RECURSIVE CountTo(_, _)
CountTo(analyses, i) ==
    IF i = 0 THEN 0
    ELSE ScoreCount(analyses[i].assessment_scores) + CountTo(analyses, i - 1)

----------------------------------------------------------------------------
(* ClaudeAPIClient: from the raw analyzer outcome to a ConversationAnalysis  *)
(*                                                                          *)
(* A raw outcome is a record [kind, scores, confidence]:                     *)
(*   kind = "api_error"  _make_api_call raised (after its retries);          *)
(*   kind = "text"       the reply holds no {...} at all;                    *)
(*   kind = "bad_json"   the reply holds {...} that json.loads or float()    *)
(*                       rejects;                                            *)
(*   kind = "json"       the reply holds a JSON object whose "scores" is the *)
(*                       mapping `scores` (any subset of the dimensions) and *)
(*                       whose "confidence" is `confidence` (NoConfidence    *)
(*                       when the key is missing);                           *)
(*   kind = "client_raises"  analyze_conversation_turn itself raised: its    *)
(*                       prompt construction, which precedes its try block,  *)
(*                       failed, or the service was given a client that      *)
(*                       raises.                                             *)

NoConfidence == -1

_create_default_analysis_data ==
    [ scores |-> [d \in AssessmentDimension |-> DefaultScore],
      confidence |-> DefaultDataConfidence ]

_parse_text_analysis ==
    [ scores |-> [d \in AssessmentDimension |-> DefaultScore],
      confidence |-> TextAnalysisConfidence ]

\* A variant that takes the reply's scores as they are, without filling in the
\* dimensions the reply left out.
ParseAnalysisResponse_AsReplied(raw) ==
    IF raw.kind = "bad_json" THEN _create_default_analysis_data
    ELSE IF raw.kind = "text" THEN _parse_text_analysis
    ELSE [ scores |-> raw.scores,
           confidence |-> IF raw.confidence = NoConfidence
                          THEN MissingConfidence ELSE raw.confidence ]

_parse_analysis_response(raw) ==
    IF raw.kind = "bad_json" THEN _create_default_analysis_data
    ELSE IF raw.kind = "text" THEN _parse_text_analysis
    ELSE [ scores |-> [d \in AssessmentDimension |->
                          IF d \in DOMAIN raw.scores THEN raw.scores[d]
                          ELSE DefaultScore],
           confidence |-> IF raw.confidence = NoConfidence
                          THEN MissingConfidence ELSE raw.confidence ]

\* A bug that would give the fallback analysis the parser's default confidence.
DefaultAnalysis_ParserConfidence(session_id, t) ==
    [ turn_id |-> << session_id, t >>,
      assessment_scores |-> [d \in AssessmentDimension |-> DefaultScore],
      confidence_score |-> MissingConfidence ]

\* A turn id is f"{session_id}_{n}" for an integer n: the pair << session_id, n >>.
\* The fallback analysis takes n = int(time.time()).
_create_default_analysis(session_id, t) ==
    [ turn_id |-> << session_id, t >>,
      assessment_scores |-> [d \in AssessmentDimension |-> DefaultScore],
      confidence_score |-> DefaultAnalysisConfidence ]

\* learning_context is [session_id, conversation_history_len]; a parsed
\* analysis takes n = len(learning_context.conversation_history).
analyze_conversation_turn(learning_context, raw, t) ==
    IF raw.kind = "api_error"
    THEN _create_default_analysis(learning_context.session_id, t)
    ELSE LET analysis_data == _parse_analysis_response(raw)
         IN  [ turn_id |-> << learning_context.session_id,
                              learning_context.conversation_history_len >>,
               assessment_scores |-> analysis_data.scores,
               confidence_score |-> analysis_data.confidence ]

----------------------------------------------------------------------------
(* LearningIntelligenceService: the helpers, as functions of the session    *)

\* f"session_{user_id}_{int(datetime.utcnow().timestamp())}": the string is
\* determined by, and determines, the pair (user_id, whole second).
SessionId(user_id, t) == << "session", user_id, t >>

\* Mean of a deque of scores as the fraction << numerator, denominator >>.
_get_user_performance_baseline(perf) ==
    [ d \in AssessmentDimension |->
        IF perf[d] /= << >> THEN << SumSeq(perf[d]), Len(perf[d]) >>
        ELSE << DefaultScore, 1 >> ]

_calculate_adaptive_parameters(perf) ==
    ("personalization_level" :> "medium") @@
    ("coaching_frequency" :> "moderate") @@
    ("challenge_progression" :> "gradual") @@
    ("feedback_style" :> "constructive") @@
    ("performance_baseline" :> _get_user_performance_baseline(perf))

\* The two entries of each of the last 5 analyses.
_build_turn_learning_context(session) ==
    [ session_id |-> session.session_id,
      conversation_history_len |->
          2 * Len(LastN(session.conversation_analyses, HistoryWindow)) ]

\* A bug that would keep every score (a plain list instead of the deque).
DequeAppend_Unbounded(q, x) == Append(q, x)

\* deque.append on a deque(maxlen=50): the oldest entry leaves a full deque.
DequeAppend(q, x) ==
    IF Len(q) >= BaselineMaxlen THEN Append(Tail(q), x) ELSE Append(q, x)

\* A bug that would leave the loop after the first dimension.
SkillProgression_FirstOnly(session, analysis) ==
    [ session EXCEPT !.skill_progression =
        [ d \in DOMAIN @ |->
            IF d = DimOrder[1] /\ d \in DOMAIN analysis.assessment_scores
            THEN Append(@[d], analysis.assessment_scores[d]) ELSE @[d] ] ]

\* The session half of _update_skill_progression.
_update_skill_progression(session, analysis) ==
    [ session EXCEPT !.skill_progression =
        [ d \in DOMAIN @ |->
            IF d \in DOMAIN analysis.assessment_scores
            THEN Append(@[d], analysis.assessment_scores[d]) ELSE @[d] ] ]

\* The user_performance half of _update_skill_progression.
UpdateUserPerformance(perf, analysis) ==
    [ d \in DOMAIN perf |->
        IF d \in DOMAIN analysis.assessment_scores
        THEN DequeAppend(perf[d], analysis.assessment_scores[d]) ELSE perf[d] ]

ThresholdOf(d) ==
    IF d \in DOMAIN coaching_thresholds THEN coaching_thresholds[d]
    ELSE DefaultThreshold

ThresholdFeedback(session, d, score) ==
    [ feedback_id |-> << "rt", session.session_id,
                         Len(session.conversation_analyses), d >>,
      trigger_type |-> "performance_threshold",
      dimension |-> d,
      priority |-> 5 - IntPart(score) ]

OpportunityFeedback(session, d) ==
    [ feedback_id |-> << "opp", session.session_id,
                         Len(session.conversation_analyses) >>,
      trigger_type |-> "opportunity",
      dimension |-> d,
      priority |-> OpportunityPriority ]

\* A bug that would compare with <= instead of <.
BelowThreshold_Inclusive(d, score) == score <= ThresholdOf(d)

\* score < threshold
BelowThreshold(d, score) == score < ThresholdOf(d)

\* A bug that would let the fourth turn count from the third (>= 3).
OpportunityAllowed_FromThird(session) ==
    Len(session.conversation_analyses) >= OpportunityMinTurns

\* len(session.conversation_analyses) > 3
OpportunityAllowed(session) ==
    Len(session.conversation_analyses) > OpportunityMinTurns

\* Called after the analysis has been appended to session.conversation_analyses.
_generate_real_time_coaching(session, analysis) ==
    LET scores == analysis.assessment_scores
        low == SelectSeq(Keys(scores), LAMBDA d : BelowThreshold(d, scores[d]))
        threshold_items ==
            [ i \in 1..Len(low) |-> ThresholdFeedback(session, low[i], scores[low[i]]) ]
        high_performing ==
            SelectSeq(Keys(scores), LAMBDA d : scores[d] >= OpportunityScore)
    IN  IF high_performing /= << >> /\ OpportunityAllowed(session)
        THEN Append(threshold_items, OpportunityFeedback(session, high_performing[1]))
        ELSE threshold_items

\* A bug that would forget the ceiling of the difficulty scale.
MayIncrease_NoCeiling(session) == TRUE

\* session.difficulty_level < 5
MayIncrease(session) == session.difficulty_level < MaxDifficulty

\* A variant that applies its own suggestion: difficulty_level moves with the
\* flag it sets.
AdaptiveParameters_Applied(session, analysis) ==
    LET recent == LastN(session.conversation_analyses, RecentTurnsWindow)
        total == TotalTo(recent, Len(recent))
        n == CountTo(recent, Len(recent))
        p1 == ("current_avg_performance" :> << total, n >>) @@ session.adaptive_parameters
    IN  IF n > 0 /\ total > IncreaseAbove * n /\ MayIncrease(session)
        THEN [ session EXCEPT
                 !.adaptive_parameters = ("suggested_difficulty_increase" :> TRUE) @@ p1,
                 !.difficulty_level = @ + 1 ]
        ELSE IF n > 0 /\ total < DecreaseBelow * n /\ session.difficulty_level > MinDifficulty
        THEN [ session EXCEPT
                 !.adaptive_parameters = ("suggested_difficulty_decrease" :> TRUE) @@ p1,
                 !.difficulty_level = @ - 1 ]
        ELSE IF n > 0 THEN [ session EXCEPT !.adaptive_parameters = p1 ] ELSE session

_update_adaptive_parameters(session, analysis) ==
    LET recent == LastN(session.conversation_analyses, RecentTurnsWindow)
        total == TotalTo(recent, Len(recent))
        n == CountTo(recent, Len(recent))
        p0 == session.adaptive_parameters
        p1 == ("current_avg_performance" :> << total, n >>) @@ p0
        p2 == IF total > IncreaseAbove * n /\ MayIncrease(session)
              THEN ("suggested_difficulty_increase" :> TRUE) @@ p1
              ELSE IF total < DecreaseBelow * n /\ session.difficulty_level > MinDifficulty
              THEN ("suggested_difficulty_decrease" :> TRUE) @@ p1
              ELSE p1
        p3 == ("coaching_sensitivity" :>
                  IF total < SensitivityHighBelow * n THEN "high"
                  ELSE IF total > SensitivityLowAbove * n THEN "low"
                  ELSE "medium") @@ p2
    IN  IF n > 0 THEN [ session EXCEPT !.adaptive_parameters = p3 ] ELSE session

\* statistics.mean of the per-turn means of `analyses`, compared with `bound`
\* (tenths): sum_i (sum_i / count_i) / len >= bound, with every fraction
\* brought to the denominator 840 = lcm(1..8).
MeanOfTurnMeansAtLeast(analyses, bound) ==
    LET means == [ i \in 1..Len(analyses) |->
                     (ScoreSum(analyses[i].assessment_scores) * 840)
                         \div ScoreCount(analyses[i].assessment_scores) ]
    IN  SumSeq(means) >= bound * 840 * Len(analyses)

\* A bug that would judge the gate on the latest turn alone.
FeedbackGate_LatestTurnOnly(session) ==
    MeanOfTurnMeansAtLeast(LastN(session.conversation_analyses, 1), FeedbackMinAverage)

\* The performance gate before STRUCTURED_FEEDBACK: at least 3 of the last 5
\* per-turn means exist and their mean is at least 2.5.
FeedbackGate(session) ==
    LET recent_performance == LastN(session.conversation_analyses, FeedbackWindow)
    IN  /\ Len(recent_performance) >= FeedbackMinSamples
        /\ MeanOfTurnMeansAtLeast(recent_performance, FeedbackMinAverage)

\* A bug that would send a session failing the gate back to SCENE_SETTING.
\* A variant that walks the enum in declaration order: the first advance goes
\* to SCENARIO_SELECTION.
StepProgression_ThroughSelection(session) ==
    LET turn_count == Len(session.conversation_analyses)
    IN  IF session.current_step = CONTEXT_GATHERING /\ turn_count >= SceneSettingTurns
        THEN [ session EXCEPT !.current_step = SCENARIO_SELECTION ]
        ELSE IF session.current_step = SCENARIO_SELECTION /\ turn_count >= RoleplayTurns
        THEN [ session EXCEPT !.current_step = SCENE_SETTING ]
        ELSE session

StepProgression_Demoting(session) ==
    LET turn_count == Len(session.conversation_analyses)
    IN  IF session.current_step = CONTEXT_GATHERING /\ turn_count >= SceneSettingTurns
        THEN [ session EXCEPT !.current_step = SCENE_SETTING ]
        ELSE IF session.current_step = SCENE_SETTING /\ turn_count >= RoleplayTurns
        THEN [ session EXCEPT !.current_step = INTERACTIVE_ROLEPLAY ]
        ELSE IF session.current_step = INTERACTIVE_ROLEPLAY /\ turn_count >= FeedbackTurns
        THEN [ session EXCEPT !.current_step =
                 IF FeedbackGate(session) THEN STRUCTURED_FEEDBACK ELSE SCENE_SETTING ]
        ELSE session

_check_framework_step_progression(session) ==
    LET turn_count == Len(session.conversation_analyses)
    IN  IF session.current_step = CONTEXT_GATHERING /\ turn_count >= SceneSettingTurns
        THEN [ session EXCEPT !.current_step = SCENE_SETTING ]
        ELSE IF session.current_step = SCENE_SETTING /\ turn_count >= RoleplayTurns
        THEN [ session EXCEPT !.current_step = INTERACTIVE_ROLEPLAY ]
        ELSE IF session.current_step = INTERACTIVE_ROLEPLAY /\ turn_count >= FeedbackTurns
        THEN IF FeedbackGate(session)
             THEN [ session EXCEPT !.current_step = STRUCTURED_FEEDBACK ]
             ELSE session
        ELSE session

\* session_metrics, recomputed from all analyses: "turn_count",
\* "coaching_interactions" and "average_performance" (the mean over the enum of
\* the per-dimension means, a missing score counting 0; all per-dimension means
\* have the same denominator, the turn count, so it is the sum of all recorded
\* scores over 8 times the turn count).  The remaining entries
\* (performance_std, skill_dimension_scores, progress_trend, engagement_score)
\* are derived from the same analyses and are read by no operation.
_update_session_metrics(session) ==
    LET analyses == session.conversation_analyses
        total == TotalTo(analyses, Len(analyses))
    IN  IF analyses = << >> THEN session
        ELSE [ session EXCEPT !.session_metrics =
                 ("average_performance" :> << total, Len(DimOrder) * Len(analyses) >>) @@
                 ("turn_count" :> Len(analyses)) @@
                 ("coaching_interactions" :> Len(session.coaching_interactions)) ]

\* A bug that would store the analysis in the slot its turn id names (the
\* number of turns there were when the context was built).
AppendAnalysis_AtTurnIndex(session, analysis) ==
    LET slot == (analysis.turn_id[2] \div 2) + 1
    IN  [ session EXCEPT !.conversation_analyses =
            IF slot \in 1..Len(@) THEN [ @ EXCEPT ![slot] = analysis ]
            ELSE Append(@, analysis) ]

\* session.conversation_analyses.append(analysis)
AppendAnalysis(session, analysis) ==
    [ session EXCEPT !.conversation_analyses = Append(@, analysis) ]

\* The synchronous block of process_conversation_turn that follows the
\* analyzer call: append, progression, adaptive parameters, step, metrics.
\* (Each intermediate session is bound by a quantifier over a one-element set,
\* so that it is computed once wherever the operator is evaluated.)
RecordTurn(session, analysis) ==
    CHOOSE s5 \in
        { _update_session_metrics(s4) :
            s4 \in { _check_framework_step_progression(s3) :
            s3 \in { _update_adaptive_parameters(s2, analysis) :
            s2 \in { _update_skill_progression(s1, analysis) :
            s1 \in { AppendAnalysis(session, analysis) } } } } } : TRUE

----------------------------------------------------------------------------
(* ElevenLabsConversationalClient (backend/integrations/elevenlabs.py): the   *)
(* client of the voice layer.  Its websocket is NoWebsocket (None), "open" (a *)
(* connected socket) or "closed" (a socket object whose connection is gone:   *)
(* send raises).  `sent` lists the types of the messages written to the       *)
(* socket; audio_buffer and conversation_history are held as their lengths.   *)

DISCONNECTED == "disconnected"
CONNECTING == "connecting"
CONNECTED == "connected"
SPEAKING == "speaking"
LISTENING == "listening"
ERROR == "error"

ConversationState == { DISCONNECTED, CONNECTING, CONNECTED, SPEAKING, LISTENING, ERROR }

NoWebsocket == "none"

_max_reconnect_attempts == 5

\* The client after __init__.
NewClient ==
    [ websocket |-> NoWebsocket,
      state |-> DISCONNECTED,
      _reconnect_attempts |-> 0,
      reconnecting |-> FALSE,
      sent |-> << >>,
      audio_buffer |-> 0,
      conversation_history |-> 0 ]

----------------------------------------------------------------------------
(* State *)

Users == { "u1", "u2" }

\* The session ids callers pass: those start_learning_session has returned to
\* them (active, ended or replaced since), and one id that was never created.
UnknownId == SessionId("nobody", 0)

CallIds == { returned_ids[i] : i \in 1..Len(returned_ids) } \cup { UnknownId }

\* session_config.get(key, default)
ConfigGet(session_config, key, default) ==
    IF key \in DOMAIN session_config THEN session_config[key] ELSE default

NoResult == [ op |-> "none", session_id |-> UnknownId, error |-> "" ]

EmptyPerformance == [ d \in AssessmentDimension |-> << >> ]

\* The service after __init__: no session, no history, empty baselines.
ServiceInit ==
    /\ now = 0
    /\ active_sessions = << >>
    /\ session_history = [ u \in Users |-> << >> ]
    /\ user_performance = [ u \in Users |-> EmptyPerformance ]
    /\ result = NoResult
    /\ returned_ids = << >>
    /\ arrivals = [ u \in Users |-> << >> ]
    /\ analyzer_called = FALSE
    /\ in_flight = << >>
    /\ coaching_thresholds = _initialize_coaching_thresholds
    /\ client = NewClient

\* The wall clock advances between calls.
Tick ==
    /\ now < MaxClock
    /\ now' = now + 1
    /\ UNCHANGED << active_sessions, session_history, user_performance, result,
                    returned_ids, arrivals, workload, coaching_thresholds, client, analyzer_called, in_flight >>

NewSession(session_id, user_id, session_config, t, perf) ==
    [ session_id |-> session_id,
      user_id |-> user_id,
      scenario_type |-> ConfigGet(session_config, "scenario_type", "cold_call"),
      prospect_persona |-> ConfigGet(session_config, "prospect_persona", "enterprise_vp"),
      difficulty_level |-> ConfigGet(session_config, "difficulty_level", DefaultDifficulty),
      learning_objectives |->
          ConfigGet(session_config, "learning_objectives", DefaultObjectives),
      start_time |-> t,
      end_time |-> NoTime,
      current_step |-> CONTEXT_GATHERING,
      conversation_analyses |-> << >>,
      skill_progression |-> [ d \in AssessmentDimension |-> << >> ],
      coaching_interactions |-> << >>,
      adaptive_parameters |-> _calculate_adaptive_parameters(perf),
      session_metrics |-> << >> ]

\* A bug that would keep a session already stored under the id (setdefault).
StoreSession_KeepExisting(sessions, session_id, session) ==
    sessions @@ (session_id :> session)

\* self.active_sessions[session_id] = session
StoreSession(sessions, session_id, session) == (session_id :> session) @@ sessions

start_learning_session(user_id, session_config) ==
    LET session_id == SessionId(user_id, now)
        session == NewSession(session_id, user_id, session_config, now,
                              user_performance[user_id])
    IN  /\ active_sessions' = StoreSession(active_sessions, session_id, session)
        /\ returned_ids' = Append(returned_ids, session_id)
        /\ result' = [ op |-> "start", session_id |-> session_id, error |-> "" ]
        /\ analyzer_called' = FALSE
        /\ UNCHANGED << now, session_history, user_performance, arrivals, workload, coaching_thresholds, client,
                        in_flight >>

\* A bug that would count the turn before the analyzer is called.
SessionAfterFailedAnalysis_Counted(session) ==
    [ session EXCEPT !.conversation_analyses =
        Append(@, _create_default_analysis(session.session_id, 0)) ]

\* The session when analyze_conversation_turn raised: the except clause is
\* reached before anything was appended.
SessionAfterFailedAnalysis(session) == session

\* str(e) of the exception the client raised.
ClientError == "analysis client raised"

\* A bug that would answer a turn on an unknown session with an empty mapping.
TurnOnUnknownSession_Silent == ""

\* return {"error": "Session not found"}
TurnOnUnknownSession == "Session not found"

\* The returned mapping is held as its "coaching_feedback" and "current_step";
\* its other entries ("analysis", "skill_progression", "adaptive_adjustments",
\* "session_metrics") are the last analysis and fields of the session itself.
process_conversation_turn(session_id, raw) ==
    IF session_id \notin DOMAIN active_sessions
    THEN /\ result' = [ op |-> "process_turn", session_id |-> session_id,
                        error |-> TurnOnUnknownSession ]
         /\ analyzer_called' = FALSE
         /\ UNCHANGED << now, active_sessions, session_history, user_performance,
                         returned_ids, arrivals, workload, coaching_thresholds, client, in_flight >>
    ELSE IF raw.kind = "client_raises"
    THEN /\ active_sessions' = [ active_sessions EXCEPT ![session_id] =
                                    SessionAfterFailedAnalysis(@) ]
         /\ result' = [ op |-> "process_turn", session_id |-> session_id,
                        error |-> ClientError ]
         /\ analyzer_called' = TRUE
         /\ UNCHANGED << now, session_history, user_performance, returned_ids,
                         arrivals, workload, coaching_thresholds, client, in_flight >>
    ELSE LET session == active_sessions[session_id]
             learning_context == _build_turn_learning_context(session)
             analysis == analyze_conversation_turn(learning_context, raw, now)
             appended == [ session EXCEPT !.conversation_analyses = Append(@, analysis) ]
             coaching_feedback == _generate_real_time_coaching(appended, analysis)
             updated == RecordTurn(session, analysis)
         IN  /\ active_sessions' = [ active_sessions EXCEPT ![session_id] = updated ]
             /\ user_performance' =
                    [ user_performance EXCEPT ![session.user_id] =
                        UpdateUserPerformance(@, analysis) ]
             /\ arrivals' = [ arrivals EXCEPT ![session.user_id] =
                                Append(@, analysis.assessment_scores) ]
             /\ result' = [ op |-> "process_turn", session_id |-> session_id,
                            error |-> "",
                            coaching_feedback |-> coaching_feedback,
                            current_step |-> updated.current_step ]
             /\ analyzer_called' = TRUE
             /\ UNCHANGED << now, session_history, returned_ids, workload, coaching_thresholds, client, in_flight >>

\* get_structured_feedback as end_learning_session calls it, the session being
\* active: a message when nothing was recorded; otherwise the report is built up
\* to the call of self._calculate_performance_trends, a method the class does not
\* define, and the AttributeError is returned as {"error": ...}.
get_structured_feedback(session) ==
    IF session.conversation_analyses = << >>
    THEN [ error |-> "", message |-> "No conversation data to analyze yet" ]
    ELSE [ error |-> "no attribute _calculate_performance_trends", message |-> "" ]

\* A bug that would leave the ended session in the active map.
RemoveSession_Forgotten(sessions, session_id) == sessions

\* del self.active_sessions[session_id]
RemoveSession(sessions, session_id) ==
    [ k \in DOMAIN sessions \ { session_id } |-> sessions[k] ]

\* A bug that would start the user's history afresh at every end.
ArchiveSession_Replace(history, session) == << session >>

\* self.session_history[session.user_id].append(session)
ArchiveSession(history, session) == Append(history, session)

end_learning_session(session_id) ==
    IF session_id \notin DOMAIN active_sessions
    THEN /\ result' = [ op |-> "end", session_id |-> session_id,
                        error |-> "Session not found" ]
         /\ analyzer_called' = FALSE
         /\ UNCHANGED << now, active_sessions, session_history, user_performance,
                         returned_ids, arrivals, workload, coaching_thresholds, client, in_flight >>
    ELSE LET session == [ active_sessions[session_id] EXCEPT !.end_time = now ]
             final_report == get_structured_feedback(session)
         IN  /\ session_history' =
                    [ session_history EXCEPT ![session.user_id] = ArchiveSession(@, session) ]
             /\ active_sessions' = RemoveSession(active_sessions, session_id)
             /\ result' = [ op |-> "end", session_id |-> session_id,
                            error |-> final_report.error,
                            message |-> final_report.message,
                            total_turns |-> Len(session.conversation_analyses),
                            framework_steps_completed |-> session.current_step ]
             /\ analyzer_called' = FALSE
             /\ UNCHANGED << now, user_performance, returned_ids, arrivals, workload, coaching_thresholds, client,
                             in_flight >>

----------------------------------------------------------------------------
(* Calls in flight.  A coroutine of the service is suspended only where it   *)
(* awaits the external service: process_conversation_turn inside             *)
(* analyze_conversation_turn, end_learning_session inside the                *)
(* generate_coaching_feedback call of get_structured_feedback (made when the *)
(* session has analyses).  The other awaits are of coroutines that never     *)
(* suspend.  A suspended call keeps the session object it fetched; in the    *)
(* specification that uses these actions one session is created, so that     *)
(* object is the one stored under its id, in the active map or, once ended,  *)
(* in the history (each entry of it with that id is the same object).        *)
(* A suspended call is at an attempt of _make_api_call: attempt_number is    *)
(* the number of the attempt that is outstanding, `raised` the exceptions of *)
(* the attempts before it.                                                   *)

RemoveAt(calls, i) == SubSeq(calls, 1, i - 1) \o SubSeq(calls, i + 1, Len(calls))

Archived(session_id) ==
    UNION { { session_history[u][i] : i \in { j \in 1..Len(session_history[u]) :
                  session_history[u][j].session_id = session_id } } : u \in DOMAIN session_history }

\* The session object a suspended call holds, as it is now.
HeldSession(session_id) ==
    IF session_id \in DOMAIN active_sessions THEN active_sessions[session_id]
    ELSE CHOOSE session \in Archived(session_id) : TRUE

\* The stores after the held object was changed into `session`.
ActiveWith(session) ==
    [ k \in DOMAIN active_sessions |->
        IF k = session.session_id THEN session ELSE active_sessions[k] ]

HistoryWith(session) ==
    [ u \in DOMAIN session_history |->
        [ i \in 1..Len(session_history[u]) |->
            IF session_history[u][i].session_id = session.session_id
            THEN session ELSE session_history[u][i] ] ]

\* process_conversation_turn up to the await of the analyzer.
begin_process_conversation_turn(session_id) ==
    IF session_id \notin DOMAIN active_sessions
    THEN /\ result' = [ op |-> "process_turn", session_id |-> session_id,
                        error |-> TurnOnUnknownSession ]
         /\ analyzer_called' = FALSE
         /\ UNCHANGED << now, active_sessions, session_history, user_performance,
                         returned_ids, arrivals, workload, coaching_thresholds, client, in_flight >>
    ELSE /\ in_flight' = Append(in_flight,
                [ op |-> "process_turn", session_id |-> session_id,
                  learning_context |->
                      _build_turn_learning_context(active_sessions[session_id]),
                  attempt_number |-> 1, raised |-> << >> ])
         /\ analyzer_called' = TRUE
         /\ UNCHANGED << now, active_sessions, session_history, user_performance,
                         result, returned_ids, arrivals, workload, coaching_thresholds, client >>

\* process_conversation_turn from the analyzer's answer to its return.
resume_process_conversation_turn(i, raw) ==
    LET call == in_flight[i]
        session == HeldSession(call.session_id)
        analysis == analyze_conversation_turn(call.learning_context, raw, now)
        appended == AppendAnalysis(session, analysis)
        coaching_feedback == _generate_real_time_coaching(appended, analysis)
        updated == RecordTurn(session, analysis)
    IN  /\ call.op = "process_turn"
        /\ in_flight' = RemoveAt(in_flight, i)
        /\ active_sessions' = ActiveWith(updated)
        /\ session_history' = HistoryWith(updated)
        /\ user_performance' =
               [ user_performance EXCEPT ![session.user_id] =
                   UpdateUserPerformance(@, analysis) ]
        /\ arrivals' = [ arrivals EXCEPT ![session.user_id] =
                           Append(@, analysis.assessment_scores) ]
        /\ result' = [ op |-> "process_turn", session_id |-> call.session_id,
                       error |-> "",
                       coaching_feedback |-> coaching_feedback,
                       current_step |-> updated.current_step ]
        /\ UNCHANGED << now, returned_ids, workload, coaching_thresholds, client, analyzer_called >>

\* end_learning_session up to the await inside get_structured_feedback; a
\* session without analyses is ended without suspension.
begin_end_learning_session(session_id) ==
    IF \/ session_id \notin DOMAIN active_sessions
       \/ active_sessions[session_id].conversation_analyses = << >>
    THEN end_learning_session(session_id)
    ELSE /\ active_sessions' = [ active_sessions EXCEPT ![session_id].end_time = now ]
         /\ in_flight' = Append(in_flight,
                [ op |-> "end", session_id |-> session_id,
                  learning_context |->
                      _build_turn_learning_context(active_sessions[session_id]),
                  attempt_number |-> 1, raised |-> << >> ])
         /\ UNCHANGED << now, session_history, user_performance, result,
                         returned_ids, arrivals, workload, coaching_thresholds, client, analyzer_called >>

\* str(e) of the KeyError that del raises for an id no longer in the map.
KeyErrorOnDelete == "KeyError"

\* end_learning_session from the answer of the external call to its return:
\* the report ends in the error of get_structured_feedback, the session is
\* appended to the history, and the id is deleted from the active map, which
\* raises when another call has deleted it already.
resume_end_learning_session(i) ==
    LET call == in_flight[i]
        session == HeldSession(call.session_id)
        final_report == get_structured_feedback(session)
    IN  /\ call.op = "end"
        /\ in_flight' = RemoveAt(in_flight, i)
        /\ session_history' =
               [ session_history EXCEPT ![session.user_id] = ArchiveSession(@, session) ]
        /\ IF call.session_id \in DOMAIN active_sessions
           THEN /\ active_sessions' = RemoveSession(active_sessions, call.session_id)
                /\ result' = [ op |-> "end", session_id |-> call.session_id,
                               error |-> final_report.error,
                               message |-> final_report.message,
                               total_turns |-> Len(session.conversation_analyses),
                               framework_steps_completed |-> session.current_step ]
           ELSE /\ UNCHANGED active_sessions
                /\ result' = [ op |-> "end", session_id |-> call.session_id,
                               error |-> KeyErrorOnDelete ]
        /\ analyzer_called' = FALSE
        /\ UNCHANGED << now, user_performance, returned_ids, arrivals, workload, coaching_thresholds, client >>

----------------------------------------------------------------------------
(* The operations of the voice client.  start_conversation awaits the REST   *)
(* call and the websocket handshake in state CONNECTING and assigns no other *)
(* field until both are over, so it is one step here; websocket.send is one  *)
(* step with the call that makes it.                                         *)

ServiceUntouched ==
    UNCHANGED << now, active_sessions, session_history, user_performance,
                 returned_ids, arrivals, workload, analyzer_called, in_flight,
                 coaching_thresholds >>

VoiceResult(op, accepted) ==
    [ op |-> op, session_id |-> UnknownId, error |-> "", accepted |-> accepted ]

\* outcome: "connected", or the REST call failed, or the handshake failed; on
\* failure the state is ERROR and the exception is raised to the caller.
start_conversation(outcome) ==
    /\ client' = IF outcome = "connected"
                 THEN [ client EXCEPT !.websocket = "open", !.state = CONNECTED ]
                 ELSE [ client EXCEPT !.state = ERROR ]
    /\ result' = VoiceResult("start_conversation", outcome = "connected")
    /\ ServiceUntouched

\* _handle_websocket_messages: one message read from the open socket and
\* dispatched on its "type".
_process_websocket_message(message_type) ==
    /\ client.websocket = "open"
    /\ client' =
         IF message_type \in { "conversation_initiation_metadata", "interruption" }
         THEN [ client EXCEPT !.state = LISTENING ]
         ELSE IF message_type = "audio"
         THEN [ client EXCEPT !.audio_buffer = @ + 1 ]
         ELSE IF message_type \in { "user_transcript", "agent_response" }
         THEN [ client EXCEPT !.conversation_history = @ + 1 ]
         ELSE IF message_type = "ping"
         THEN [ client EXCEPT !.sent = Append(@, "pong") ]
         ELSE client
    /\ UNCHANGED result
    /\ ServiceUntouched

send_audio ==
    /\ IF client.websocket = NoWebsocket \/ client.state # CONNECTED
       THEN /\ UNCHANGED client
            /\ result' = VoiceResult("send_audio", FALSE)
       ELSE IF client.websocket = "closed"
       THEN /\ client' = [ client EXCEPT !.state = SPEAKING ]
            /\ result' = VoiceResult("send_audio", FALSE)
       ELSE /\ client' = [ client EXCEPT !.state = LISTENING,
                                         !.sent = Append(@, "audio") ]
            /\ result' = VoiceResult("send_audio", TRUE)
    /\ ServiceUntouched

end_conversation ==
    /\ client' = [ client EXCEPT !.websocket = NoWebsocket, !.state = DISCONNECTED ]
    /\ result' = VoiceResult("end_conversation", TRUE)
    /\ ServiceUntouched

\* The peer or the network closes the connection: the reading task gets
\* ConnectionClosed and enters _handle_disconnection, which either counts an
\* attempt and sleeps before it reconnects, or gives up.
connection_closed ==
    /\ client.websocket = "open"
    /\ client' =
         IF client._reconnect_attempts < _max_reconnect_attempts
         THEN [ client EXCEPT !.websocket = "closed",
                              !._reconnect_attempts = @ + 1,
                              !.reconnecting = TRUE ]
         ELSE [ client EXCEPT !.websocket = "closed", !.state = ERROR ]
    /\ UNCHANGED result
    /\ ServiceUntouched

\* _handle_disconnection after its sleep: _connect_websocket succeeds or not.
_handle_disconnection(reconnected) ==
    /\ client.reconnecting
    /\ client' =
         IF reconnected
         THEN [ client EXCEPT !.websocket = "open", !._reconnect_attempts = 0,
                              !.state = CONNECTED, !.reconnecting = FALSE ]
         ELSE [ client EXCEPT !.reconnecting = FALSE ]
    /\ UNCHANGED result
    /\ ServiceUntouched

----------------------------------------------------------------------------
(* Inputs *)

\* A reply whose "scores" gives every dimension the score x.
Uniform(x) ==
    [ kind |-> "json", scores |-> [ d \in AssessmentDimension |-> x ],
      confidence |-> 9 ]

ApiError == [ kind |-> "api_error", scores |-> << >>, confidence |-> NoConfidence ]

\* A reply that scores one dimension only, and gives no confidence.
OnlyDiscovery ==
    [ kind |-> "json", scores |-> ("discovery_questions" :> 20),
      confidence |-> NoConfidence ]

RawOutcomes == { ApiError, OnlyDiscovery }

\* A reply without any {...}, and a reply whose {...} is not JSON.
NoJson == [ kind |-> "text", scores |-> << >>, confidence |-> NoConfidence ]

BadJson == [ kind |-> "bad_json", scores |-> << >>, confidence |-> NoConfidence ]

ClientRaises ==
    [ kind |-> "client_raises", scores |-> << >>, confidence |-> NoConfidence ]

EmptyConfig == << >>

HardConfig ==
    ("scenario_type" :> "discovery") @@ ("difficulty_level" :> 5) @@
    ("learning_objectives" :> << "Practice discovery" >>)

Configs == { EmptyConfig, HardConfig }

----------------------------------------------------------------------------
(* The attempts of an outbound call *)

\* The exceptions an attempt of _make_api_call can end in: the two the retry
\* decorator names, another APIError (a 4xx/5xx status), and any other.
ApiExceptions == { "APIConnectionError", "RateLimitError", "APIStatusError", "Exception" }

\* A variant that retries whatever was raised.
RetryIf_AnyException(exception) == TRUE

\* retry=retry_if_exception_type((APIConnectionError, RateLimitError))
retry_if_exception_type(exception) ==
    exception \in { "APIConnectionError", "RateLimitError" }

\* stop=stop_after_attempt(3)
stop_after_attempt(attempt_number) == attempt_number >= 3

\* The outstanding attempt of the suspended turn call i ends.  outcome.raises
\* is "" when client.messages.create returned, and outcome.raw is then what
\* the reply parses to; otherwise it is the exception of the attempt: the
\* decorator waits and calls again, or gives up (RetryError after the last
\* attempt, the exception itself when it is not one to retry), and
\* analyze_conversation_turn catches what _make_api_call raised.
_make_api_call(i, outcome) ==
    LET call == in_flight[i]
    IN  /\ call.op = "process_turn"
        /\ IF outcome.raises = ""
           THEN resume_process_conversation_turn(i, outcome.raw)
           ELSE IF /\ retry_if_exception_type(outcome.raises)
                   /\ ~ stop_after_attempt(call.attempt_number)
           THEN /\ in_flight' = [ in_flight EXCEPT ![i].attempt_number = @ + 1,
                                                   ![i].raised = Append(@, outcome.raises) ]
                /\ UNCHANGED << now, active_sessions, session_history, user_performance,
                                result, returned_ids, arrivals, workload, analyzer_called,
                                coaching_thresholds, client >>
           ELSE resume_process_conversation_turn(i, ApiError)

----------------------------------------------------------------------------
(* The service under calls of several users: sessions are started, fed turns *)
(* and ended in any order, on active and on unknown session ids.            *)

Init == ServiceInit /\ workload = << >>

Start ==
    \E user_id \in Users, session_config \in Configs :
        /\ Len(returned_ids) < MaxStarts
        /\ start_learning_session(user_id, session_config)

ProcessTurn ==
    \E session_id \in CallIds, raw \in RawOutcomes :
        /\ session_id \in DOMAIN active_sessions =>
              Len(active_sessions[session_id].conversation_analyses) < MaxTurns
        /\ process_conversation_turn(session_id, raw)

End == \E session_id \in CallIds : end_learning_session(session_id)

Next == Tick \/ Start \/ ProcessTurn \/ End

Spec == Init /\ [][Next]_vars

----------------------------------------------------------------------------
(* One session fed turns whose dimensions all score alike: the framework     *)
(* steps.  The configuration is that of the end-to-end scenario.             *)

\* The first turns of the session score 3.0 or 5.0 throughout; the later ones,
\* which are those the performance gate looks at, 2.0, 2.5, 3.0 or 5.0.
WarmupScores == { 30, 50 }

StepScores == { 20, 25, 30, 50 }

ScenarioConfig ==
    ("difficulty_level" :> 2) @@
    ("learning_objectives" :> << "Practice discovery questions" >>)

StartScenario ==
    /\ returned_ids = << >>
    /\ start_learning_session("u1", ScenarioConfig)

StepTurn ==
    \E session_id \in DOMAIN active_sessions :
        LET n == Len(active_sessions[session_id].conversation_analyses)
        IN  /\ n < MaxStepTurns
            /\ \E x \in (IF n < WarmupTurns THEN WarmupScores ELSE StepScores) :
                    process_conversation_turn(session_id, Uniform(x))

NextSteps == StartScenario \/ StepTurn

SpecSteps == Init /\ [][NextSteps]_vars

----------------------------------------------------------------------------
(* One session of any difficulty fed turns around the coaching thresholds.   *)

\* Every dimension scores exactly its coaching threshold.
AtThreshold ==
    [ kind |-> "json", scores |-> _initialize_coaching_thresholds, confidence |-> 9 ]

\* One dimension half a point under its threshold, another at 5.0, the rest at
\* their thresholds.
OneBelowOneHigh ==
    [ kind |-> "json",
      scores |-> ("discovery_questions" :> 20) @@ ("closing_skills" :> 50) @@
                 _initialize_coaching_thresholds,
      confidence |-> 9 ]

\* A reply that scores one dimension -1.0: float() accepts any number and the
\* parser applies no range to it.
BelowScale ==
    [ kind |-> "json",
      scores |-> ("discovery_questions" :> -10) @@ [ d \in AssessmentDimension |-> 30 ],
      confidence |-> 9 ]

CoachingOutcomes ==
    { Uniform(45), Uniform(30), Uniform(15), AtThreshold, OneBelowOneHigh, BelowScale }

CoachingConfigs ==
    { EmptyConfig } \cup { ("difficulty_level" :> k) : k \in { 1, 4, 5 } }

StartCoaching ==
    \E session_config \in CoachingConfigs :
        /\ returned_ids = << >>
        /\ start_learning_session("u1", session_config)

CoachingTurn ==
    \E session_id \in DOMAIN active_sessions, raw \in CoachingOutcomes :
        /\ Len(active_sessions[session_id].conversation_analyses) < MaxCoachingTurns
        /\ process_conversation_turn(session_id, raw)

EndActive == \E session_id \in DOMAIN active_sessions : end_learning_session(session_id)

NextCoaching == StartCoaching \/ CoachingTurn \/ EndActive

SpecCoaching == Init /\ [][NextCoaching]_vars

----------------------------------------------------------------------------
(* One user whose sessions, one after the other, record more turns than the  *)
(* baseline history holds.  The scores follow a pattern drawn at the start:  *)
(* the k-th turn of the user scores workload[k mod Len(workload)].           *)

Patterns == { << 45 >>, << 10, 20, 30 >>, << 50, 15 >>, << 20, 25, 30, 35, 40, 45, 50 >> }

InitBaseline == ServiceInit /\ workload \in Patterns

StartNext ==
    /\ Len(returned_ids) < MaxBaselineStarts
    /\ active_sessions = << >>
    /\ start_learning_session("u1", EmptyConfig)

BaselineTurn ==
    \E session_id \in DOMAIN active_sessions :
        LET k == Len(arrivals[active_sessions[session_id].user_id])
        IN  /\ k < MaxBaselineTurns
            /\ process_conversation_turn(session_id,
                                         Uniform(workload[(k % Len(workload)) + 1]))

NextBaseline == StartNext \/ BaselineTurn \/ EndActive

SpecBaseline == InitBaseline /\ [][NextBaseline]_vars

----------------------------------------------------------------------------
(* One session whose turns meet every kind of analyzer outcome.              *)

AnalyzerOutcomes ==
    { ApiError, NoJson, BadJson, ClientRaises, OnlyDiscovery, Uniform(45) }

StartAnalyzed ==
    /\ returned_ids = << >>
    /\ start_learning_session("u1", EmptyConfig)

AnalyzedTurn ==
    \E session_id \in DOMAIN active_sessions, raw \in AnalyzerOutcomes :
        /\ Len(active_sessions[session_id].conversation_analyses) < MaxAnalyzerTurns
        /\ process_conversation_turn(session_id, raw)

NextAnalyzer == Tick \/ StartAnalyzed \/ AnalyzedTurn

SpecAnalyzer == Init /\ [][NextAnalyzer]_vars

----------------------------------------------------------------------------
(* Sessions of two users started with every kind of configuration, given a   *)
(* turn and ended, in any order.                                             *)

\* Configurations with a difficulty below and above the 1-5 scale, and one with
\* an empty list of objectives.
TooEasyConfig == ("difficulty_level" :> 0)

TooHardConfig == ("difficulty_level" :> 6) @@ ("prospect_persona" :> "smb_owner")

NoObjectivesConfig == ("learning_objectives" :> << >>)

LifecycleConfigs ==
    { EmptyConfig, HardConfig, TooEasyConfig, TooHardConfig, NoObjectivesConfig }

\* The first user tries every configuration, the second the default one.
StartAny ==
    \E user_id \in Users :
        \E session_config \in (IF user_id = "u1" THEN LifecycleConfigs ELSE { EmptyConfig }) :
            /\ Len(returned_ids) < MaxLifecycleStarts
            /\ start_learning_session(user_id, session_config)

LifecycleTurn ==
    \E session_id \in DOMAIN active_sessions :
        /\ Len(active_sessions[session_id].conversation_analyses) < MaxLifecycleTurns
        /\ process_conversation_turn(session_id, Uniform(30))

NextLifecycle == Tick \/ StartAny \/ LifecycleTurn \/ EndActive

SpecLifecycle == Init /\ [][NextLifecycle]_vars

----------------------------------------------------------------------------
(* One session whose turn and end calls overlap: a call may be issued while  *)
(* others are suspended, and the suspended calls resume in any order.        *)

InFlight(op) == { i \in 1..Len(in_flight) : in_flight[i].op = op }

AsyncOutcomes == { Uniform(45), ApiError }

StartAsync ==
    /\ returned_ids = << >>
    /\ start_learning_session("u1", EmptyConfig)

BeginTurn ==
    \E session_id \in CallIds :
        /\ session_id \in DOMAIN active_sessions =>
              Len(active_sessions[session_id].conversation_analyses)
                  + Cardinality(InFlight("process_turn")) < MaxAsyncTurns
        /\ begin_process_conversation_turn(session_id)

ResumeTurn ==
    \E i \in InFlight("process_turn"), raw \in AsyncOutcomes :
        resume_process_conversation_turn(i, raw)

BeginEnd ==
    \E session_id \in CallIds :
        /\ Cardinality(InFlight("end")) < MaxAsyncEnds
        /\ begin_end_learning_session(session_id)

ResumeEnd == \E i \in InFlight("end") : resume_end_learning_session(i)

NextAsync == StartAsync \/ BeginTurn \/ ResumeTurn \/ BeginEnd \/ ResumeEnd

SpecAsync == Init /\ [][NextAsync]_vars

----------------------------------------------------------------------------
(* Properties *)

ActiveSessions == { active_sessions[k] : k \in DOMAIN active_sessions }

ArchivedSessions ==
    UNION { { session_history[u][i] : i \in 1..Len(session_history[u]) } : u \in Users }

AllSessions == ActiveSessions \cup ArchivedSessions

TurnCount(session) == Len(session.conversation_analyses)

\* Every dimension of the turn i of the session scored x.
TurnScored(session, i, x) ==
    \A d \in AssessmentDimension : session.conversation_analyses[i].assessment_scores[d] = x

\* The sum of the scores of all dimensions over the last 5 recorded turns.
LastFiveTotal(session) ==
    LET n == TurnCount(session)
    IN  SumSeq([ j \in 1..8 |->
                   SumSeq(SubSeq(session.skill_progression[DimOrder[j]], n - 4, n)) ])

\* C1: across process_conversation_turn calls the current_step of a session
\* never moves to an earlier framework step, whatever the turns score.
C1_StepNeverDecreases ==
    [][ \A k \in DOMAIN active_sessions \cap DOMAIN active_sessions' :
          active_sessions'[k].current_step >= active_sessions[k].current_step ]_vars

\* A session that reached STRUCTURED_FEEDBACK and then recorded a turn that
\* scored 2.0 throughout.
C1_Witness ==
    \E s \in ActiveSessions :
        /\ TurnCount(s) = 11
        /\ TurnScored(s, 11, 20)
        /\ s.current_step = STRUCTURED_FEEDBACK

\* C3: a turn moves a session from INTERACTIVE_ROLEPLAY to STRUCTURED_FEEDBACK
\* exactly when, the new turn counted, there are at least 10 turns and the mean
\* of the per-turn averages of the last 5 turns is at least 2.5 (every turn
\* has 8 scores, so: the last 40 scores sum to at least 40 * 2.5); otherwise it
\* stays in INTERACTIVE_ROLEPLAY.  With all scores 5.0 the session is at step 4
\* after turn 9 and at step 5 after turn 10.
C3_FeedbackGate ==
    /\ [][ \A k \in DOMAIN active_sessions \cap DOMAIN active_sessions' :
             LET before == active_sessions[k]
                 after == active_sessions'[k]
             IN  ( /\ before.current_step = INTERACTIVE_ROLEPLAY
                   /\ TurnCount(after) = TurnCount(before) + 1 )
                 => after.current_step =
                        IF TurnCount(after) >= 10 /\ LastFiveTotal(after) >= 1000
                        THEN STRUCTURED_FEEDBACK ELSE INTERACTIVE_ROLEPLAY ]_vars
    /\ [] ( \A s \in ActiveSessions :
              (\A i \in 1..TurnCount(s) : TurnScored(s, i, 50))
              => /\ TurnCount(s) = 9 => s.current_step = INTERACTIVE_ROLEPLAY
                 /\ TurnCount(s) = 10 => s.current_step = STRUCTURED_FEEDBACK )

\* Eleven turns are recorded, the last five average exactly 2.5, and the session
\* has just left role-play: after the tenth turn the average was below 2.5.
C3_Witness ==
    \E s \in ActiveSessions :
        /\ TurnCount(s) = 11
        /\ LastFiveTotal(s) = 1000
        /\ TurnScored(s, 6, 30) /\ TurnScored(s, 7, 20) /\ TurnScored(s, 8, 20)
        /\ s.current_step = STRUCTURED_FEEDBACK

\* The end-to-end scenario: difficulty 2, ten turns, the first nine at 3.0 on
\* every dimension and the tenth at 2.0 on every dimension.
C4_Scenario(s) ==
    /\ s.difficulty_level = 2
    /\ TurnCount(s) = 10
    /\ \A i \in 1..9 : TurnScored(s, i, 30)
    /\ TurnScored(s, 10, 20)

\* C4, as stated: after the tenth turn of the scenario the session is at
\* INTERACTIVE_ROLEPLAY.
C4_ScenarioStaysInRoleplay ==
    \A s \in ActiveSessions : C4_Scenario(s) => s.current_step = INTERACTIVE_ROLEPLAY

\* C4, amended: after the tenth turn of the scenario the session is at
\* STRUCTURED_FEEDBACK (the last five turns average 2.8, which passes the gate).
C4_ScenarioReachesFeedback ==
    \A s \in ActiveSessions : C4_Scenario(s) => s.current_step = STRUCTURED_FEEDBACK

C4_Witness == \E s \in ActiveSessions : C4_Scenario(s)

\* The scores of the turn the last call recorded, and the session it belongs to.
LastSession == active_sessions[result.session_id]

LastScores ==
    LastSession.conversation_analyses[TurnCount(LastSession)].assessment_scores

TurnRecorded == result.op = "process_turn" /\ result.error = ""

ItemsOf(trigger_type) ==
    SelectSeq(result.coaching_feedback, LAMBDA f : f.trigger_type = trigger_type)

\* C2: in every session, active or archived, each dimension's skill_progression
\* list is as long as the list of recorded turns.
C2_OneScorePerTurn ==
    \A s \in AllSessions : \A d \in AssessmentDimension :
        Len(s.skill_progression[d]) = TurnCount(s)

\* An archived session of two turns, one of them parsed from a reply that
\* scored a single dimension and gave no confidence.
C2_Witness ==
    \E s \in ArchivedSessions :
        /\ TurnCount(s) = 2
        /\ \E i \in 1..2 : s.conversation_analyses[i].confidence_score = MissingConfidence

\* C5: the "performance_threshold" items of a turn are one for each dimension
\* that scored strictly below its threshold and none for any other dimension;
\* a turn with every dimension exactly at its threshold has none.
C5_ThresholdItems ==
    TurnRecorded =>
        LET items == ItemsOf("performance_threshold")
            below == { d \in AssessmentDimension : LastScores[d] < coaching_thresholds[d] }
        IN  /\ { items[i].dimension : i \in 1..Len(items) } = below
            /\ Len(items) = Cardinality(below)
            /\ (\A d \in AssessmentDimension : LastScores[d] = coaching_thresholds[d])
               => Len(items) = 0

\* A turn that scored every dimension exactly at its threshold.
C5_Witness ==
    /\ TurnRecorded
    /\ \A d \in AssessmentDimension : LastScores[d] = coaching_thresholds[d]

\* C6: a turn has an "opportunity" item iff the session then has more than 3
\* turns and some dimension scored at least 4.0 in the turn; there is at most
\* one and it is the last item of the list.
C6_OpportunityItem ==
    TurnRecorded =>
        LET items == ItemsOf("opportunity")
            all == result.coaching_feedback
        IN  /\ Len(items) <= 1
            /\ Len(items) = 1 <=>
                   ( /\ TurnCount(LastSession) > 3
                     /\ \E d \in AssessmentDimension : LastScores[d] >= 40 )
            /\ Len(items) = 1 => all[Len(all)].trigger_type = "opportunity"
            /\ TurnCount(LastSession) <= 3 => Len(items) = 0

\* A third turn with a dimension at 5.0: no opportunity item although a
\* threshold item is emitted.
C6_Witness ==
    /\ TurnRecorded
    /\ TurnCount(LastSession) = 3
    /\ \E d \in AssessmentDimension : LastScores[d] = 50
    /\ Len(ItemsOf("performance_threshold")) = 1
    /\ Len(ItemsOf("opportunity")) = 0

\* C7: a session with at least one turn whose every recorded score is 4.5 has
\* suggested_difficulty_increase = True in adaptive_parameters when its
\* difficulty_level is below 5, and no such entry when it is 5.
C7_IncreaseSuggested ==
    \A s \in AllSessions :
        ( /\ TurnCount(s) >= 1
          /\ \A i \in 1..TurnCount(s) : TurnScored(s, i, 45) )
        => IF s.difficulty_level < 5
           THEN /\ "suggested_difficulty_increase" \in DOMAIN s.adaptive_parameters
                /\ s.adaptive_parameters["suggested_difficulty_increase"] = TRUE
           ELSE "suggested_difficulty_increase" \notin DOMAIN s.adaptive_parameters

\* A session of difficulty 5 after three turns at 4.5.
C7_Witness ==
    \E s \in ActiveSessions :
        /\ s.difficulty_level = 5
        /\ TurnCount(s) = 3
        /\ \A i \in 1..3 : TurnScored(s, i, 45)

\* C8: end_learning_session on an id that is not active returns the
\* session-not-found error and leaves the active map, the history and the
\* baselines as they were; and once it has ended a session the id is no longer
\* active, so that a repeated call is such a call.
C8_RepeatedEndFails ==
    /\ [][ ( /\ result'.op = "end"
             /\ result' /= result
             /\ result'.session_id \notin DOMAIN active_sessions )
           => /\ result'.error = "Session not found"
              /\ UNCHANGED << active_sessions, session_history, user_performance >> ]_vars
    /\ [] ( (result.op = "end" /\ result.error /= "Session not found")
            => result.session_id \notin DOMAIN active_sessions )

\* The second of two end calls for a session has just failed: the session is
\* in its user's history, once, and the call reported session-not-found.
C8_Witness ==
    /\ result.op = "end"
    /\ result.error = "Session not found"
    /\ Cardinality({ s \in ArchivedSessions : s.session_id = result.session_id }) = 1
    /\ result.session_id \notin DOMAIN active_sessions

\* The scores of one dimension handed to a user's baseline, in arrival order.
Arrived(u, d) == [ i \in 1..Len(arrivals[u]) |-> arrivals[u][i][d] ]

\* C9: a user's baseline history of a dimension never holds more than 50
\* scores, and is always the most recent (at most 50) scores in arrival order.
C9_BaselineBounded ==
    \A u \in Users : \A d \in AssessmentDimension :
        /\ Len(user_performance[u][d]) <= 50
        /\ user_performance[u][d] = LastN(Arrived(u, d), 50)

\* More than 50 scores have arrived for a user, over two sessions.
C9_Witness ==
    \E u \in Users :
        /\ Len(arrivals[u]) > 50
        /\ Len(session_history[u]) >= 1
        /\ \E s \in ActiveSessions : s.user_id = u /\ TurnCount(s) >= 1

\* C10: start_learning_session never returns an id it has returned before.
C10_SessionIdsUnique ==
    \A i, j \in 1..Len(returned_ids) : i /= j => returned_ids[i] /= returned_ids[j]

\* C11: process_conversation_turn on an id that is not active (never created,
\* or ended) returns the session-not-found error without calling the analyzer,
\* and leaves the sessions, the histories and the baselines as they were.
C11_TurnOnUnknownSessionFails ==
    [][ ( /\ result'.op = "process_turn"
          /\ result' /= result
          /\ result'.session_id \notin DOMAIN active_sessions )
        => /\ result'.error = "Session not found"
           /\ analyzer_called' = FALSE
           /\ UNCHANGED << active_sessions, session_history, user_performance >> ]_vars

\* A turn was just refused for a session that had recorded a turn and was ended.
C11_Witness ==
    /\ result.op = "process_turn"
    /\ result.error = "Session not found"
    /\ analyzer_called = FALSE
    /\ result.session_id \notin DOMAIN active_sessions
    /\ \E s \in ArchivedSessions : s.session_id = result.session_id /\ TurnCount(s) >= 1

\* The last recorded turn of a session scored 3.0 on each of the 8 dimensions,
\* with the confidence c (tenths).
NeutralTurn(session, c) ==
    LET a == session.conversation_analyses[TurnCount(session)]
    IN  /\ DOMAIN a.assessment_scores = AssessmentDimension
        /\ \A d \in AssessmentDimension : a.assessment_scores[d] = 30
        /\ a.confidence_score = c

\* The turn succeeded and was recorded, all 3.0, with the confidence c.
RecordedNeutral(session_id, c) ==
    /\ result'.error = ""
    /\ TurnCount(active_sessions'[session_id]) = TurnCount(active_sessions[session_id]) + 1
    /\ NeutralTurn(active_sessions'[session_id], c)

C13_ClientFailureLeavesSession ==
    [][ \A session_id \in DOMAIN active_sessions :
          process_conversation_turn(session_id, ClientRaises)
          => /\ result'.error /= ""
             /\ UNCHANGED << active_sessions, session_history, user_performance >> ]_vars

\* The client has just raised on a session that holds recorded turns.
C13_Witness ==
    /\ result.op = "process_turn"
    /\ result.error = ClientError
    /\ analyzer_called
    /\ \E s \in ActiveSessions : s.session_id = result.session_id /\ TurnCount(s) = 2

\* The configuration entries that a session copies.
ConfigKeys ==
    { "scenario_type", "prospect_persona", "difficulty_level", "learning_objectives" }

\* C14: start_learning_session stores, under the id it returns, a session of
\* the user with the configuration given, at CONTEXT_GATHERING, with an empty
\* score list for each of the 8 dimensions, no turn, no metrics and no end_time.
C14_StartCreatesFreshSession ==
    [][ \A user_id \in Users : \A session_config \in LifecycleConfigs :
          start_learning_session(user_id, session_config)
          => /\ result'.op = "start"
             /\ result'.session_id \in DOMAIN active_sessions'
             /\ LET session == active_sessions'[result'.session_id]
                IN  /\ session.session_id = result'.session_id
                    /\ session.user_id = user_id
                    /\ \A key \in ConfigKeys \cap DOMAIN session_config :
                          session[key] = session_config[key]
                    /\ session.current_step = CONTEXT_GATHERING
                    /\ session.skill_progression = [ d \in AssessmentDimension |-> << >> ]
                    /\ session.conversation_analyses = << >>
                    /\ session.session_metrics = << >>
                    /\ session.end_time = NoTime ]_vars

\* A session was just started under an id that an earlier session of the same
\* user, which had recorded a turn, was stored under.
C14_Witness ==
    /\ result.op = "start"
    /\ \E i, j \in 1..Len(returned_ids) :
          i < j /\ j = Len(returned_ids) /\ returned_ids[i] = returned_ids[j]
    /\ arrivals[active_sessions[result.session_id].user_id] /= << >>
    /\ session_history = [ u \in Users |-> << >> ]

\* C15: end_learning_session on an active session sets its end_time, removes
\* its id from the active map and appends it to the history of its user; no
\* other active session and no other history changes.
C15_EndArchivesSession ==
    [][ \A session_id \in DOMAIN active_sessions :
          end_learning_session(session_id)
          => LET session == active_sessions[session_id]
                 user_id == session.user_id
             IN  /\ session_id \notin DOMAIN active_sessions'
                 /\ DOMAIN active_sessions' = DOMAIN active_sessions \ { session_id }
                 /\ \A k \in DOMAIN active_sessions' :
                       active_sessions'[k] = active_sessions[k]
                 /\ Len(session_history'[user_id]) = Len(session_history[user_id]) + 1
                 /\ SubSeq(session_history'[user_id], 1, Len(session_history[user_id]))
                        = session_history[user_id]
                 /\ LET archived == session_history'[user_id][Len(session_history'[user_id])]
                    IN  /\ archived.end_time = now
                        /\ archived.end_time /= NoTime
                        /\ archived = [ session EXCEPT !.end_time = now ]
                 /\ \A u \in Users \ { user_id } :
                       session_history'[u] = session_history[u] ]_vars

\* The second session of a user was just ended, after the first.
C15_Witness ==
    /\ result.op = "end" /\ result.error /= "Session not found"
    /\ \E u \in Users :
          /\ Len(session_history[u]) = 2
          /\ session_history[u][2].session_id = result.session_id
          /\ session_history[u][2].end_time > session_history[u][1].end_time

\* C16: start_learning_session with a difficulty_level outside 1..5 fails and
\* adds no session, so that every session has a difficulty_level within 1..5.
C16_DifficultyValidated ==
    /\ [][ \A user_id \in Users : \A session_config \in { TooEasyConfig, TooHardConfig } :
             start_learning_session(user_id, session_config)
             => /\ result'.error /= ""
                /\ UNCHANGED active_sessions ]_vars
    /\ [] ( \A session \in AllSessions : session.difficulty_level \in 1..5 )

\* C17: every session has a non-empty list of learning objectives.
C17_ObjectivesNonEmpty ==
    \A session \in AllSessions : session.learning_objectives /= << >>

\* The turns recorded by the sessions (the ended session counted once, however
\* many entries of the history hold it), and the turn calls awaiting the analyzer.
TurnsRecorded ==
    LET ids == { session.session_id : session \in AllSessions }
    IN  SumSeq([ k \in 1..Len(returned_ids) |->
                   IF returned_ids[k] \in ids /\ \A j \in 1..(k - 1) : returned_ids[j] /= returned_ids[k]
                   THEN TurnCount(HeldSession(returned_ids[k])) ELSE 0 ])

TurnCallIssued ==
    /\ Len(in_flight') = Len(in_flight) + 1
    /\ in_flight'[Len(in_flight')].op = "process_turn"

\* C18: with turn calls of a session in flight together, every observable
\* state has as many scores per dimension as recorded turns, and no turn is
\* lost or recorded twice: the recorded turns plus the calls awaiting the
\* analyzer grow by one when a call is issued and never change otherwise, so
\* that k turns are recorded once k calls have returned.
C18_TurnUpdateAtomic ==
    /\ [] ( \A session \in AllSessions : \A d \in AssessmentDimension :
              Len(session.skill_progression[d]) = TurnCount(session) )
    /\ [][ TurnsRecorded' + Cardinality(InFlight("process_turn"))'
             = TurnsRecorded + Cardinality(InFlight("process_turn"))
               + (IF TurnCallIssued THEN 1 ELSE 0) ]_vars

\* Two turn calls were in flight together (their contexts were built over the
\* same history, so their turn ids agree) and both have returned.
C18_Witness ==
    /\ in_flight = << >>
    /\ \E session \in ActiveSessions :
          /\ TurnCount(session) = 2
          /\ session.conversation_analyses[1].turn_id = session.conversation_analyses[2].turn_id
          /\ session.conversation_analyses[1].confidence_score = 9
          /\ session.conversation_analyses[2].confidence_score = 9

\* C19: whatever the interleaving of the end calls of a session, the session
\* is appended to the history of its user exactly once.
C19_EndTakesEffectOnce ==
    \A u \in Users : \A i, j \in 1..Len(session_history[u]) :
        i /= j => session_history[u][i].session_id /= session_history[u][j].session_id

\* The step a single transition leads to.
StepAfter(step) ==
    IF step = CONTEXT_GATHERING THEN SCENE_SETTING
    ELSE IF step = SCENE_SETTING THEN INTERACTIVE_ROLEPLAY
    ELSE IF step = INTERACTIVE_ROLEPLAY THEN STRUCTURED_FEEDBACK
    ELSE step

\* C20: with turns processed one after the other, a session is at
\* CONTEXT_GATHERING with fewer than 2 recorded turns, at SCENE_SETTING with 2 or
\* 3, and at INTERACTIVE_ROLEPLAY or later with 4 or more; one turn makes at
\* most one transition.
C20_EarlyStepsFollowTurnCount ==
    /\ [] ( \A session \in ActiveSessions :
              /\ TurnCount(session) < 2 => session.current_step = CONTEXT_GATHERING
              /\ TurnCount(session) \in { 2, 3 } => session.current_step = SCENE_SETTING
              /\ TurnCount(session) >= 4 => session.current_step >= INTERACTIVE_ROLEPLAY )
    /\ [][ \A k \in DOMAIN active_sessions \cap DOMAIN active_sessions' :
             active_sessions'[k].current_step
                 \in { active_sessions[k].current_step,
                       StepAfter(active_sessions[k].current_step) } ]_vars

\* The fourth turn has just taken a session from SCENE_SETTING into role-play.
C20_Witness ==
    /\ result.op = "process_turn"
    /\ result.current_step = INTERACTIVE_ROLEPLAY
    /\ \E session \in ActiveSessions : TurnCount(session) = 4

\* ---------------------------------------------------------------------------
\* C21: the current_step of every session, active or archived, is one of
\* CONTEXT_GATHERING, SCENE_SETTING, INTERACTIVE_ROLEPLAY, STRUCTURED_FEEDBACK
\* (never SCENARIO_SELECTION, never EXTENDED_LEARNING), and a session that is
\* at STRUCTURED_FEEDBACK is still there after any further turn.
ReachableSteps ==
    { CONTEXT_GATHERING, SCENE_SETTING, INTERACTIVE_ROLEPLAY, STRUCTURED_FEEDBACK }

C21_StepsReached ==
    /\ [] ( \A s \in AllSessions : s.current_step \in ReachableSteps )
    /\ [][ \A k \in DOMAIN active_sessions \cap DOMAIN active_sessions' :
             active_sessions[k].current_step = STRUCTURED_FEEDBACK
             => active_sessions'[k].current_step = STRUCTURED_FEEDBACK ]_vars

\* A session that entered STRUCTURED_FEEDBACK with its tenth turn and recorded
\* an eleventh, 5.0 throughout.
C21_Witness ==
    \E s \in ActiveSessions :
        /\ TurnCount(s) = 11
        /\ \A i \in 1..11 : TurnScored(s, i, 50)
        /\ s.current_step = STRUCTURED_FEEDBACK

\* ---------------------------------------------------------------------------
\* The configuration a session was created with.
SessionConfiguration(session) ==
    << session.difficulty_level, session.scenario_type, session.prospect_persona,
       session.learning_objectives >>

Suggests(session, flag) ==
    /\ flag \in DOMAIN session.adaptive_parameters
    /\ session.adaptive_parameters[flag] = TRUE

\* C22: no operation changes the difficulty_level, scenario_type,
\* prospect_persona or learning_objectives of an existing session (one that
\* stays active, one that is being archived, one that is in the history), nor
\* the coaching threshold table; a turn that sets a difficulty suggestion
\* writes it to adaptive_parameters only.
C22_ConfigurationImmutable ==
    [][ /\ coaching_thresholds' = coaching_thresholds
        /\ \A k \in DOMAIN active_sessions :
             IF k \in DOMAIN active_sessions'
             THEN SessionConfiguration(active_sessions'[k])
                    = SessionConfiguration(active_sessions[k])
             ELSE \E u \in Users :
                    /\ Len(session_history'[u]) = Len(session_history[u]) + 1
                    /\ LET archived == session_history'[u][Len(session_history'[u])]
                       IN  /\ archived.session_id = k
                           /\ SessionConfiguration(archived)
                                = SessionConfiguration(active_sessions[k])
        /\ \A u \in Users : \A i \in 1..Len(session_history[u]) :
             SessionConfiguration(session_history'[u][i])
               = SessionConfiguration(session_history[u][i]) ]_vars

\* A session of difficulty 4 that was told to go up and was then archived,
\* still at difficulty 4.
C22_Witness ==
    \E s \in ArchivedSessions :
        /\ s.difficulty_level = 4
        /\ TurnCount(s) >= 1
        /\ Suggests(s, "suggested_difficulty_increase")

\* ---------------------------------------------------------------------------
\* C23: every "performance_threshold" item a turn returns has the priority
\* 5 - floor(score), score being the turn's score of the item's dimension, and
\* that priority is an integer from 1 to 5, whatever score was recorded.
C23_PriorityInRange ==
    TurnRecorded =>
        LET items == ItemsOf("performance_threshold")
        IN  \A i \in 1..Len(items) :
                /\ items[i].priority = 5 - (LastScores[items[i].dimension] \div 10)
                /\ items[i].priority \in 1..5

\* ---------------------------------------------------------------------------
\* C24: every recorded analysis, of any session, has a score for each of the 8
\* dimensions; a dimension the analyzer's reply left out is recorded as 3.0
\* (a reply that scores discovery_questions 2.0 only is recorded as 2.0 for it
\* and 3.0 for the seven others).
C24_AllDimensionsScored ==
    /\ [] ( \A s \in AllSessions : \A i \in 1..TurnCount(s) :
              DOMAIN s.conversation_analyses[i].assessment_scores = AssessmentDimension )
    /\ [][ \A session_id \in DOMAIN active_sessions :
             process_conversation_turn(session_id, OnlyDiscovery)
             => LET s == active_sessions'[session_id]
                    scores == s.conversation_analyses[TurnCount(s)].assessment_scores
                IN  /\ TurnCount(s) = TurnCount(active_sessions[session_id]) + 1
                    /\ DOMAIN scores = AssessmentDimension
                    /\ scores["discovery_questions"] = 20
                    /\ \A d \in AssessmentDimension \ { "discovery_questions" } :
                         scores[d] = 30 ]_vars

\* The last call recorded a reply that scored discovery_questions only, after
\* a turn that scored all dimensions.
C24_Witness ==
    /\ TurnRecorded
    /\ TurnCount(LastSession) = 2
    /\ TurnScored(LastSession, 1, 45)
    /\ LastScores["discovery_questions"] = 20
    /\ LastScores["closing_skills"] = 30
    /\ LastSession.conversation_analyses[2].confidence_score = MissingConfidence

\* ---------------------------------------------------------------------------
\* C25: within one session the turn ids of the recorded analyses are pairwise
\* distinct, however many turns the session has.
C25_TurnIdsDistinct ==
    \A s \in AllSessions : \A i, j \in 1..TurnCount(s) :
        i # j => s.conversation_analyses[i].turn_id # s.conversation_analyses[j].turn_id

\* ---------------------------------------------------------------------------
\* C27: the adaptive_parameters of no session, active or archived, have both
\* suggested_difficulty_increase and suggested_difficulty_decrease set.
C27_SuggestionsExclusive ==
    \A s \in AllSessions :
        ~ ( /\ Suggests(s, "suggested_difficulty_increase")
            /\ Suggests(s, "suggested_difficulty_decrease") )

\* ---------------------------------------------------------------------------
\* The part of a session that records its learning.
LearningRecord(session) ==
    << session.conversation_analyses, session.skill_progression, session.current_step,
       session.adaptive_parameters, session.session_metrics >>

\* C28: the recorded turns, skill_progression, current_step,
\* adaptive_parameters and session_metrics of a session that is in the history
\* never change again, whatever call is resumed afterwards.
C28_ArchivedSessionFrozen ==
    [][ \A u \in Users : \A i \in 1..Len(session_history[u]) :
          LearningRecord(session_history'[u][i]) = LearningRecord(session_history[u][i]) ]_vars

\* ---------------------------------------------------------------------------
\* C29: a call of end_learning_session that returns a mapping with "error" has
\* ended nothing: the active map and the history are as before the call, and
\* the session, if it is active, has no end_time.
C29_FailedEndChangesNothing ==
    [][ \A session_id \in CallIds :
          ( end_learning_session(session_id) /\ result'.error # "" )
          => /\ UNCHANGED << active_sessions, session_history >>
             /\ session_id \in DOMAIN active_sessions
                => active_sessions'[session_id].end_time = NoTime ]_vars

----------------------------------------------------------------------------
(* One session whose turn calls go through the attempts of _make_api_call,   *)
(* one call at a time.                                                       *)

Returns(raw) == [ raises |-> "", raw |-> raw ]

Raises(exception) == [ raises |-> exception, raw |-> ApiError ]

AttemptOutcomes ==
    { Returns(Uniform(45)), Returns(OnlyDiscovery), Returns(NoJson) }
    \cup { Raises(exception) : exception \in ApiExceptions }

StartRetried ==
    /\ returned_ids = << >>
    /\ start_learning_session("u1", EmptyConfig)

BeginRetriedTurn ==
    \E session_id \in DOMAIN active_sessions :
        /\ in_flight = << >>
        /\ Len(active_sessions[session_id].conversation_analyses) < MaxRetriedTurns
        /\ begin_process_conversation_turn(session_id)

AttemptEnds ==
    \E i \in 1..Len(in_flight), outcome \in AttemptOutcomes : _make_api_call(i, outcome)

NextRetry == StartRetried \/ BeginRetriedTurn \/ AttemptEnds

SpecRetry == Init /\ [][NextRetry]_vars

\* Every attempt that is outstanding returns or raises.
SpecRetryFair == SpecRetry /\ WF_vars(AttemptEnds)

\* The turn call i ends in this step and records `analysis_kind`: "default" is
\* the default analysis (3.0 throughout, confidence 0.5), "parsed" one built
\* from the parser's data (confidence 0.9, 0.8 or 0.7).
CallEndsWith(i, analysis_kind) ==
    LET session_id == in_flight[i].session_id
        before == active_sessions[session_id]
        after == active_sessions'[session_id]
        recorded == after.conversation_analyses[TurnCount(after)]
    IN  /\ in_flight' = RemoveAt(in_flight, i)
        /\ TurnCount(after) = TurnCount(before) + 1
        /\ result'.op = "process_turn" /\ result'.error = ""
        /\ IF analysis_kind = "default"
           THEN /\ recorded.confidence_score = 5
                /\ \A d \in AssessmentDimension : recorded.assessment_scores[d] = 30
           ELSE recorded.confidence_score \in { 7, 8, 9 }

\* C26: a call is attempted at most 3 times, and again only after a connection
\* error or a rate-limit error: an attempt that raises anything else ends the
\* call at once, also the first, and so does the third attempt whatever it
\* raises; the turn then records the default analysis.  An attempt that
\* returns ends the call with a parsed analysis.  Hence, every outstanding
\* attempt returning or raising, every call that is in flight ends.
C26_AttemptsBounded ==
    /\ [] ( \A i \in 1..Len(in_flight) :
              /\ in_flight[i].attempt_number \in 1..3
              /\ Len(in_flight[i].raised) = in_flight[i].attempt_number - 1
              /\ \A n \in 1..Len(in_flight[i].raised) :
                   in_flight[i].raised[n] \in { "APIConnectionError", "RateLimitError" } )
    /\ [][ \A i \in 1..Len(in_flight) : \A outcome \in AttemptOutcomes :
             _make_api_call(i, outcome)
             => IF outcome.raises = "" THEN CallEndsWith(i, "parsed")
                ELSE IF \/ outcome.raises \notin { "APIConnectionError", "RateLimitError" }
                        \/ in_flight[i].attempt_number = 3
                THEN CallEndsWith(i, "default")
                ELSE /\ Len(in_flight') = Len(in_flight)
                     /\ in_flight'[i].attempt_number = in_flight[i].attempt_number + 1
                     /\ UNCHANGED << active_sessions, result >> ]_vars
    /\ (in_flight # << >>) ~> (in_flight = << >>)

\* The third attempt of a call is outstanding, after a rate-limit error and a
\* connection error, in a session whose first call ended at its first attempt
\* with another error and recorded the default analysis.
C26_Witness ==
    /\ Len(in_flight) = 1
    /\ in_flight[1].attempt_number = 3
    /\ in_flight[1].raised = << "RateLimitError", "APIConnectionError" >>
    /\ \E s \in ActiveSessions :
         /\ TurnCount(s) = 1
         /\ s.conversation_analyses[1].confidence_score = 5

----------------------------------------------------------------------------
(* The voice client: a conversation is started, audio is sent, messages      *)
(* arrive, the connection is lost and restored, the conversation is ended.   *)

MessageTypes ==
    { "conversation_initiation_metadata", "interruption", "audio",
      "agent_response", "ping" }

StartConversation ==
    /\ client.websocket # "open"
    /\ \E outcome \in { "connected", "rest_failed", "websocket_failed" } :
          start_conversation(outcome)

ReceiveMessage ==
    /\ Len(client.sent) < MaxSent
    /\ client.audio_buffer + client.conversation_history < MaxReceived
    /\ \E message_type \in MessageTypes : _process_websocket_message(message_type)

SendAudio == Len(client.sent) < MaxSent /\ send_audio

EndConversation == client.websocket # NoWebsocket /\ end_conversation

ConnectionClosed == connection_closed

Reconnect == \E reconnected \in BOOLEAN : _handle_disconnection(reconnected)

NextVoice ==
    StartConversation \/ ReceiveMessage \/ SendAudio \/ EndConversation
    \/ ConnectionClosed \/ Reconnect

SpecVoice == Init /\ [][NextVoice]_vars

\* C30: while the client's websocket is live (start_conversation succeeded,
\* end_conversation was not called, the connection did not fail), every
\* send_audio call is accepted: it writes one audio message and returns True.
C30_AudioAccepted ==
    [][ (client.websocket = "open" /\ send_audio)
        => /\ result'.accepted
           /\ client'.sent = Append(client.sent, "audio") ]_vars

====
